---- MODULE Spec2Model ----
(***************************************************************************)
(* The paragraph scanner of scraper.py, parse_docx_to_xml: one pass over   *)
(* document.paragraphs that builds an ElementTree of Section, Requirement  *)
(* and TestCase elements, followed by the serialisation of the tree.       *)
(*                                                                         *)
(* A string is a sequence of tokens.  A token is one character (a space,   *)
(* a line feed, a control character, a letter) or one of the label         *)
(* prefixes the regular expressions of the code look for, kept whole.      *)
(***************************************************************************)
EXTENDS Integers, Sequences, FiniteSets

VARIABLES
    paragraphs,       \* the paragraphs of document.paragraphs the loop has taken so far
    pc,               \* "loop": in the for loop; "done": after line 238; "raised": an exception left the loop
    root,             \* the element tree: root[1] is the Specification, every other entry a SubElement
    section_stack,    \* list of (level, element)
    current_element,  \* element new records are attached to
    current_req,      \* the open Requirement element, or None
    current_test,     \* the open TestCase element, or None
    capture_mode,     \* "None", "ReqDesc", "TestPurpose", "PreCond", "Steps", "Results", "Evidence"
    xml_str           \* the serialised tree, once produced

vars == <<paragraphs, pc, root, section_stack, current_element, current_req,
          current_test, capture_mode, xml_str>>

\* The longest paragraph stream explored.
MaxParas == 4

\* Python's None for an element reference (elements are numbered from 1).
None == 0

\* Python's None for the text of an element that was never given one.
NoText == <<"None">>

----------------------------------------------------------------------------
(* Characters *)

SP == " "
LF == "\n"
CTRL == "^A"

Whitespace == {SP, LF}

Last(s) == s[Len(s)]
Front(s) == SubSeq(s, 1, Len(s) - 1)

RECURSIVE lstrip(_)
lstrip(s) == IF s # <<>> /\ Head(s) \in Whitespace THEN lstrip(Tail(s)) ELSE s

RECURSIVE rstrip(_)
rstrip(s) == IF s # <<>> /\ Last(s) \in Whitespace THEN rstrip(Front(s)) ELSE s

strip(s) == rstrip(lstrip(s))

\* re.sub(r"[\x00-\x08\x0b\x0c\x0e-\x1f]", "", text)
IsControl(c) == c = CTRL
RemoveControl(s) == SelectSeq(s, LAMBDA c : ~IsControl(c))

clean_text(text) == IF text = <<>> THEN <<>> ELSE strip(RemoveControl(text))

----------------------------------------------------------------------------
(* The patterns *)

\* re.IGNORECASE: a label written in lower case matches like the capitalised one.
CaseFold(c) ==
    CASE c = "requirement name:" -> "Requirement Name:"
      [] c = "test name:" -> "Test Name:"
      [] c = "purpose:" -> "Purpose:"
      [] OTHER -> c

patterns ==
    [ req_name   |-> "Requirement Name:",
      req_ref    |-> "Requirement Reference:",
      req_desc   |-> "Requirement Description:",
      threat_ref |-> "Threat References:",
      test_name  |-> "Test Name:",
      purpose    |-> "Purpose:",
      pre_cond   |-> "Pre-Conditions:",
      steps      |-> "Execution Steps",
      expected   |-> "Expected Results:",
      evidence   |-> "Expected format of evidence:" ]

\* pattern.match(text): the pattern is anchored at the start of the text.
Matches(name, text) == text # <<>> /\ CaseFold(Head(text)) = patterns[name]

\* The text up to the first line feed: what (.*) takes, "." matching no line feed.
RECURSIVE UpToLineEnd(_)
UpToLineEnd(s) ==
    IF s = <<>> \/ Head(s) = LF THEN <<>> ELSE <<Head(s)>> \o UpToLineEnd(Tail(s))

\* match.group(1).strip() for a pattern "^label\s*(.*)"
Group1(text) == strip(UpToLineEnd(lstrip(Tail(text))))

----------------------------------------------------------------------------
(* Styles *)

IntOf ==
    [ t \in {"-1", "0", "1", "2", "3", "4"} |->
        CASE t = "-1" -> -1 [] t = "0" -> 0 [] t = "1" -> 1
          [] t = "2" -> 2 [] t = "3" -> 3 [] t = "4" -> 4 ]

\* style.startswith("Heading"); a style name is the list of its words
IsHeading(style) == style # <<>> /\ Head(style) = "Heading"

\* int(style.split()[-1]), 1 when that raises ValueError
HeadingLevel(style) ==
    IF Last(style) \in DOMAIN IntOf THEN IntOf[Last(style)] ELSE 1

----------------------------------------------------------------------------
(* The element tree *)

Element(tag, parent, text, title, level, paras) ==
    [ tag |-> tag, parent |-> parent, text |-> text, title |-> title,
      level |-> level, paras |-> paras ]

\* The number of the paragraph being processed (recorded in the elements it
\* creates or extends: "paras" is the list of paragraphs an element's text
\* comes from, the creating paragraph first).
ParaNo == Len(paragraphs) + 1

Children(tree, el) == { i \in 1..Len(tree) : tree[i].parent = el }

SetMin(S) == CHOOSE x \in S : \A y \in S : x <= y

\* Element.find(tag): the first child with that tag, or None
find(tree, el, tag) ==
    LET c == { i \in Children(tree, el) : tree[i].tag = tag }
    IN IF c = {} THEN None ELSE SetMin(c)

\* bool(text)
TextTruth(text) == text # NoText /\ text # <<>>

\* bool(element): an Element without children is false
ElementTruth(tree, el) == el # None /\ Children(tree, el) # {}

----------------------------------------------------------------------------
(* The state after lines 81-90 *)

Init ==
    /\ paragraphs = <<>>
    /\ pc = "loop"
    /\ root = << Element("Specification", None, NoText, <<>>, 0, <<>>) >>
    /\ section_stack = << <<0, 1>> >>
    /\ current_element = 1
    /\ current_req = None
    /\ current_test = None
    /\ capture_mode = "None"
    /\ xml_str = <<>>

\* ET.SubElement(parent, tag), then the text (or the attributes) it is given
SubElement(tree, parent, tag, text, title, level) ==
    Append(tree, Element(tag, parent, text, title, level, <<ParaNo>>))

\* PopStack popping nothing.
PopStackNothing(stack, level) == stack

\* PopStack popping only the entries of a greater level.
RECURSIVE PopStackGreater(_, _)
PopStackGreater(stack, level) ==
    IF stack # <<>> /\ Last(stack)[1] > level
    THEN PopStackGreater(Front(stack), level)
    ELSE stack

\* while section_stack and section_stack[-1][0] >= level: section_stack.pop()
RECURSIVE PopStack(_, _)
PopStack(stack, level) ==
    IF stack # <<>> /\ Last(stack)[1] >= level
    THEN PopStack(Front(stack), level)
    ELSE stack

\* ReqFieldMatch without the test of current_req.
ReqFieldMatchUngated(text) ==
    IF Matches("req_ref", text) THEN "req_ref"
    ELSE IF Matches("req_desc", text) THEN "req_desc"
    ELSE IF Matches("threat_ref", text) THEN "threat_ref"
    ELSE "none"

\* Which pattern of the requirement block (lines 149-168) matches, if any.
ReqFieldMatch(text) ==
    IF current_req = None THEN "none"
    ELSE IF Matches("req_ref", text) THEN "req_ref"
    ELSE IF Matches("req_desc", text) THEN "req_desc"
    ELSE IF Matches("threat_ref", text) THEN "threat_ref"
    ELSE "none"

\* Which pattern of the test block (lines 179-212) matches, if any.
TestFieldMatch(text) ==
    IF current_test = None THEN "none"
    ELSE IF Matches("purpose", text) THEN "purpose"
    ELSE IF Matches("pre_cond", text) THEN "pre_cond"
    ELSE IF Matches("steps", text) THEN "steps"
    ELSE IF Matches("expected", text) THEN "expected"
    ELSE IF Matches("evidence", text) THEN "evidence"
    ELSE "none"

\* Branch testing the style before the empty text.
BranchHeadingFirst(para) ==
    LET text == clean_text(para.text)
    IN IF IsHeading(para.style) THEN "heading"
       ELSE IF text = <<>> THEN "skip"
       ELSE IF Matches("req_name", text) THEN "req_name"
       ELSE IF ReqFieldMatch(text) # "none" THEN "req_field"
       ELSE IF Matches("test_name", text) THEN "test_name"
       ELSE IF TestFieldMatch(text) # "none" THEN "test_field"
       ELSE "content"

\* The branch of the loop body a paragraph takes: the tests of lines 108-212
\* in their order, each ending in "continue".
Branch(para) ==
    LET text == clean_text(para.text)
    IN IF text = <<>> THEN "skip"
       ELSE IF IsHeading(para.style) THEN "heading"
       ELSE IF Matches("req_name", text) THEN "req_name"
       ELSE IF ReqFieldMatch(text) # "none" THEN "req_field"
       ELSE IF Matches("test_name", text) THEN "test_name"
       ELSE IF TestFieldMatch(text) # "none" THEN "test_field"
       ELSE "content"

\* The for loop hands the body its next paragraph.
Take(para, branch) ==
    /\ pc = "loop"
    /\ Len(paragraphs) < MaxParas
    /\ Branch(para) = branch
    /\ paragraphs' = Append(paragraphs, para)

\* lines 107-109
SkipEmpty(para) ==
    /\ Take(para, "skip")
    /\ UNCHANGED <<pc, root, section_stack, current_element, current_req,
                   current_test, capture_mode, xml_str>>

\* ReqAfterHeading leaving the Requirement open.
ReqAfterHeadingKept == current_req

\* current_req after a heading, line 121
ReqAfterHeading == None

\* lines 114-137
Heading(para) ==
    /\ Take(para, "heading")
    /\ LET text == clean_text(para.text)
           level == HeadingLevel(para.style)
           popped == PopStack(section_stack, level)
           new_section == Len(root) + 1
       IN /\ current_req' = ReqAfterHeading
          /\ current_test' = None
          /\ capture_mode' = "None"
          /\ IF popped = <<>>
             THEN \* section_stack[-1] raises IndexError
                  /\ pc' = "raised"
                  /\ section_stack' = popped
                  /\ UNCHANGED <<root, current_element>>
             ELSE /\ root' = SubElement(root, Last(popped)[2], "Section", NoText, text, level)
                  /\ section_stack' = Append(popped, <<level, new_section>>)
                  /\ current_element' = new_section
                  /\ UNCHANGED pc
    /\ UNCHANGED xml_str

\* RecordParent attaching every record to the root element.
RecordParentRoot == Head(section_stack)[2]

\* The parent of a new record: ET.SubElement(current_element, ...), lines 144, 174
RecordParent == current_element

\* TestAfterReqName leaving the TestCase open.
TestAfterReqNameKept == current_test

\* current_test after a Requirement Name line, line 143
TestAfterReqName == None

\* lines 140-147
ReqName(para) ==
    /\ Take(para, "req_name")
    /\ LET text == clean_text(para.text)
           req == Len(root) + 1
       IN /\ capture_mode' = "None"
          /\ current_test' = TestAfterReqName
          /\ current_req' = req
          /\ root' = SubElement(
                         SubElement(root, RecordParent, "Requirement", NoText, <<>>, 0),
                         req, "Name", Group1(text), <<>>, 0)
    /\ UNCHANGED <<pc, section_stack, current_element, xml_str>>

\* capture_mode after a requirement field: line 154 leaves it, line 160, line 167
ReqFieldCapture(which) ==
    CASE which = "req_ref" -> capture_mode
      [] which = "req_desc" -> "ReqDesc"
      [] which = "threat_ref" -> "None"

ReqFieldTag(which) ==
    CASE which = "req_ref" -> "Reference"
      [] which = "req_desc" -> "Description"
      [] which = "threat_ref" -> "ThreatReference"

\* lines 149-168
ReqField(para) ==
    /\ Take(para, "req_field")
    /\ LET text == clean_text(para.text)
           which == ReqFieldMatch(text)
       IN /\ root' = SubElement(root, current_req, ReqFieldTag(which), Group1(text), <<>>, 0)
          /\ capture_mode' = ReqFieldCapture(which)
    /\ UNCHANGED <<pc, section_stack, current_element, current_req, current_test, xml_str>>

\* current_req after a Test Name line: lines 172-177 do not assign it
ReqAfterTestName == current_req

\* lines 171-177
TestName(para) ==
    /\ Take(para, "test_name")
    /\ LET text == clean_text(para.text)
           test == Len(root) + 1
       IN /\ capture_mode' = "None"
          /\ current_test' = test
          /\ current_req' = ReqAfterTestName
          /\ root' = SubElement(
                         SubElement(root, RecordParent, "TestCase", NoText, <<>>, 0),
                         test, "Name", Group1(text), <<>>, 0)
    /\ UNCHANGED <<pc, section_stack, current_element, xml_str>>

TestFieldTag(which) ==
    CASE which = "purpose" -> "Purpose"
      [] which = "pre_cond" -> "PreConditions"
      [] which = "steps" -> "ExecutionSteps"
      [] which = "expected" -> "ExpectedResults"
      [] which = "evidence" -> "EvidenceFormat"

TestFieldCapture(which) ==
    CASE which = "purpose" -> "TestPurpose"
      [] which = "pre_cond" -> "PreCond"
      [] which = "steps" -> "Steps"
      [] which = "expected" -> "Results"
      [] which = "evidence" -> "Evidence"

\* The text a test field starts with: the steps pattern has no group and
\* line 196 sets no text.
TestFieldText(which, text) == IF which = "steps" THEN NoText ELSE Group1(text)

\* lines 179-212
TestField(para) ==
    /\ Take(para, "test_field")
    /\ LET text == clean_text(para.text)
           which == TestFieldMatch(text)
       IN /\ root' = SubElement(root, current_test, TestFieldTag(which),
                                TestFieldText(which, text), <<>>, 0)
          /\ capture_mode' = TestFieldCapture(which)
    /\ UNCHANGED <<pc, section_stack, current_element, current_req, current_test, xml_str>>

\* target_node taking the element added last to the open record.
target_nodeLastChild ==
    IF capture_mode = "ReqDesc" /\ ElementTruth(root, current_req)
    THEN CHOOSE c \in Children(root, current_req) :
             \A d \in Children(root, current_req) : d <= c
    ELSE IF ElementTruth(root, current_test)
    THEN CHOOSE c \in Children(root, current_test) :
             \A d \in Children(root, current_test) : d <= c
    ELSE None

\* lines 216-229
target_node ==
    IF capture_mode = "ReqDesc" /\ ElementTruth(root, current_req)
    THEN find(root, current_req, "Description")
    ELSE IF ElementTruth(root, current_test)
    THEN CASE capture_mode = "TestPurpose" -> find(root, current_test, "Purpose")
           [] capture_mode = "PreCond" -> find(root, current_test, "PreConditions")
           [] capture_mode = "Steps" -> find(root, current_test, "ExecutionSteps")
           [] capture_mode = "Results" -> find(root, current_test, "ExpectedResults")
           [] capture_mode = "Evidence" -> find(root, current_test, "EvidenceFormat")
           [] OTHER -> None
    ELSE None

\* AppendText without the line break.
AppendTextNoBreak(old, text) ==
    IF TextTruth(old) THEN old \o text ELSE text

\* lines 232-235
AppendText(old, text) ==
    IF TextTruth(old) THEN old \o <<LF>> \o text ELSE text

\* lines 215-235
Content(para) ==
    /\ Take(para, "content")
    /\ LET text == clean_text(para.text)
       IN IF /\ capture_mode # "None"
             /\ (ElementTruth(root, current_req) \/ ElementTruth(root, current_test))
             /\ target_node # None
          THEN root' = [root EXCEPT ![target_node].text = AppendText(@, text),
                                    ![target_node].paras = Append(@, ParaNo)]
          ELSE UNCHANGED root
    /\ UNCHANGED <<pc, section_stack, current_element, current_req, current_test,
                   capture_mode, xml_str>>

----------------------------------------------------------------------------
(* Serialisation, line 238 *)

\* One element as written: an element whose text is None or "" and that has
\* no children is written as an empty tag, text = <<>>.
XmlLine(tree, el, depth) ==
    [ depth |-> depth, tag |-> tree[el].tag, title |-> tree[el].title,
      level |-> tree[el].level,
      text |-> IF TextTruth(tree[el].text) THEN tree[el].text ELSE <<>> ]

RECURSIVE Serialize(_, _, _)
RECURSIVE SerializeChildren(_, _, _, _)

\* An element, then its children in the order they were appended.
Serialize(tree, el, depth) ==
    <<XmlLine(tree, el, depth)>> \o SerializeChildren(tree, el, depth, 1)

SerializeChildren(tree, el, depth, i) ==
    IF i > Len(tree) THEN <<>>
    ELSE (IF tree[i].parent = el THEN Serialize(tree, i, depth + 1) ELSE <<>>)
         \o SerializeChildren(tree, el, depth, i + 1)

\* minidom.parseString(ET.tostring(root)).toprettyxml(indent="  ")
toprettyxml(tree) == Serialize(tree, 1, 0)

\* The stream is exhausted: the loop ends and line 238 runs.
Finish ==
    /\ pc = "loop"
    /\ pc' = "done"
    /\ xml_str' = toprettyxml(root)
    /\ UNCHANGED <<paragraphs, root, section_stack, current_element, current_req,
                   current_test, capture_mode>>

----------------------------------------------------------------------------
(* Paragraph streams *)

Para(text, style) == [ text |-> text, style |-> style ]

Normal == <<"Normal">>

Step(para) ==
    \/ SkipEmpty(para)
    \/ Heading(para)
    \/ ReqName(para)
    \/ ReqField(para)
    \/ TestName(para)
    \/ TestField(para)
    \/ Content(para)

\* Requirement and test blocks under headings: every requirement field, a
\* test block after it, body text.
Paragraphs ==
    { Para(<<CTRL, SP>>, Normal),
      Para(<<"a">>, <<"Heading", "1">>),
      Para(<<"a">>, <<"Heading", "0">>),
      Para(<<CTRL, "Requirement Name:", SP, "a", SP>>, Normal),
      Para(<<"Requirement Reference:", SP, "a">>, Normal),
      Para(<<"Requirement Description:", SP, "a">>, Normal),
      Para(<<"Requirement Description:">>, Normal),
      Para(<<"Threat References:", SP, "a">>, Normal),
      Para(<<"test name:", SP, "a">>, Normal),
      Para(<<"Purpose:", SP, "a">>, Normal),
      Para(<<"Execution Steps">>, Normal),
      Para(<<"a">>, Normal),
      Para(<<"b">>, Normal) }

Next == (\E para \in Paragraphs : Step(para)) \/ Finish

Spec == Init /\ [][Next]_vars

\* Heading styles of every kind (numbered, unnumbered, with a trailing word,
\* numbered 0 and -1) around a few records.
SectionParagraphs ==
    { Para(<<>>, <<"Heading", "1">>),
      Para(<<"a">>, <<"Heading", "1">>),
      Para(<<"b">>, <<"Heading", "2">>),
      Para(<<"Requirement Name:", SP, "a">>, <<"Heading", "3">>),
      Para(<<"a">>, <<"Heading">>),
      Para(<<"a">>, <<"Heading", "2", "Char">>),
      Para(<<"a">>, <<"Heading", "0">>),
      Para(<<"a">>, <<"Heading", "-1">>),
      Para(<<"Requirement Name:", SP, "a">>, Normal),
      Para(<<"Requirement Description:", SP, "a">>, Normal),
      Para(<<"Test Name:", SP, "a">>, Normal),
      Para(<<"purpose:", SP, "a">>, Normal),
      Para(<<"a">>, Normal) }

NextSections == (\E para \in SectionParagraphs : Step(para)) \/ Finish

SpecSections == Init /\ [][NextSections]_vars

\* Every multi-line field, with and without an inline value, with line feeds
\* inside a paragraph, and body text that repeats.
FieldParagraphs ==
    { Para(<<SP>>, Normal),
      Para(<<"a">>, <<"Heading", "1">>),
      Para(<<"Requirement Name:", SP, "a">>, Normal),
      Para(<<"Requirement Description:">>, Normal),
      Para(<<"Requirement Description:", SP, "b">>, Normal),
      Para(<<"Test Name:", SP, "a">>, Normal),
      Para(<<"Purpose:", LF, "a", SP, LF, "b">>, Normal),
      Para(<<"Pre-Conditions:", SP, "a">>, Normal),
      Para(<<"Execution Steps", ":", SP, "a">>, Normal),
      Para(<<"Expected Results:", "b">>, Normal),
      Para(<<"Expected format of evidence:">>, Normal),
      Para(<<"a">>, Normal),
      Para(<<"b", LF, "a">>, Normal) }

NextFields == (\E para \in FieldParagraphs : Step(para)) \/ Finish

SpecFields == Init /\ [][NextFields]_vars

----------------------------------------------------------------------------
(* Vocabulary of the properties *)

Elements == 1..Len(root)

SetMax(S) == CHOOSE x \in S : \A y \in S : x >= y

Sections == { i \in Elements : root[i].tag = "Section" }
Requirements == { i \in Elements : root[i].tag = "Requirement" }
TestCases == { i \in Elements : root[i].tag = "TestCase" }
Records == Requirements \cup TestCases

ReqFieldTags == {"Reference", "Description", "ThreatReference"}
TestFieldTags == {"Purpose", "PreConditions", "ExecutionSteps", "ExpectedResults",
                  "EvidenceFormat"}
FieldTags == ReqFieldTags \cup TestFieldTags
MultiLineTags == FieldTags \ {"Reference", "ThreatReference"}

\* The optional field elements of the records.
Fields == { i \in Elements : root[i].tag \in FieldTags }

\* The paragraph that created an element, and those appended to it later.
Opened(el) == root[el].paras[1]
Continuations(el) == { root[el].paras[k] : k \in 2..Len(root[el].paras) }

\* The paragraphs that were taken as a heading, a Requirement Name, a Test
\* Name or a field label: each created an element.
LabelParagraphs == { Opened(i) : i \in Elements \ {1} }

----------------------------------------------------------------------------
\* C1: after each paragraph, the parser never holds both a current
\* Requirement and a current TestCase.
MutualExclusion == ~(current_req # None /\ current_test # None)

\* C2: no paragraph after a Test Name paragraph adds a field to, or appends
\* to a field of, a Requirement opened before that Test Name paragraph.
TestNameClosesRequirement ==
    \A r \in Requirements, t \in TestCases, f \in Fields :
        (Opened(r) < Opened(t) /\ root[f].parent = r)
            => \A k \in {Opened(f)} \cup Continuations(f) : k < Opened(t)

\* C3: every Section is a child of the Section of the nearest preceding
\* heading with a smaller level, or of the root when there is none.
HeadingNesting ==
    \A s \in Sections :
        LET shallower == { j \in Sections : j < s /\ root[j].level < root[s].level }
        IN root[s].parent = IF shallower = {} THEN 1 ELSE SetMax(shallower)

\* C3 happens: a heading skipped over a deeper or equal earlier section to
\* nest under a shallower one, and a same-level heading became a sibling.
HeadingNestingWitness ==
    /\ \E i, j, k \in Sections :
          /\ i < j /\ j < k
          /\ root[j].level > root[k].level
          /\ root[k].level > root[i].level
          /\ root[k].parent = i
    /\ \E j, k \in Sections :
          j < k /\ root[j].level = root[k].level /\ root[j].parent = root[k].parent

\* C4: every paragraph appended to a field lies before the first heading,
\* Requirement Name, Test Name or field label paragraph that follows the
\* field's own label paragraph.
FieldOwnership ==
    \A f \in Fields : \A k \in Continuations(f) :
        ~ \E c \in LabelParagraphs : Opened(f) < c /\ c < k

\* The inline value of a field: what follows the label in its label
\* paragraph; the Execution Steps header has none.
InlineValue(f) ==
    IF root[f].tag = "ExecutionSteps" THEN <<>>
    ELSE Group1(clean_text(paragraphs[Opened(f)].text))

\* The texts a field is made of: its inline value when not empty, then the
\* paragraphs appended to it.
Segments(f) ==
    (IF InlineValue(f) # <<>> THEN <<InlineValue(f)>> ELSE <<>>)
    \o [ k \in 1..(Len(root[f].paras) - 1) |-> clean_text(paragraphs[root[f].paras[k + 1]].text) ]

RECURSIVE JoinLines(_)
JoinLines(segs) ==
    IF Len(segs) = 1 THEN segs[1] ELSE segs[1] \o <<LF>> \o JoinLines(Tail(segs))

\* C5: at the end of the scan every multi-line field equals its inline value
\* (when not empty) and the paragraphs appended to it, each once, in stream
\* order, joined by single line breaks.
ContinuationJoin ==
    pc = "done" =>
        \A f \in Fields :
            root[f].tag \in MultiLineTags =>
                /\ \A k \in 1..(Len(root[f].paras) - 1) : root[f].paras[k] < root[f].paras[k + 1]
                /\ IF Segments(f) = <<>>
                   THEN ~TextTruth(root[f].text)
                   ELSE root[f].text = JoinLines(Segments(f))

\* C5 happens: a field with an inline value and two continuation paragraphs.
ContinuationJoinWitness ==
    /\ pc = "done"
    /\ \E f \in Fields :
          /\ root[f].tag \in MultiLineTags
          /\ InlineValue(f) # <<>>
          /\ Len(root[f].paras) = 3

\* The lines of the output that are optional fields of a record.
FieldLines == { i \in 1..Len(xml_str) : xml_str[i].tag \in FieldTags }

\* C6: the output holds no field element with an empty value.
NoEmptyFieldRendered ==
    pc = "done" => \A i \in FieldLines : xml_str[i].text # <<>>

FieldRank(tag) ==
    CASE tag = "Name" -> 0
      [] tag \in {"Reference", "Purpose"} -> 1
      [] tag \in {"Description", "PreConditions"} -> 2
      [] tag \in {"ThreatReference", "ExecutionSteps"} -> 3
      [] tag = "ExpectedResults" -> 4
      [] tag = "EvidenceFormat" -> 5

\* Two field lines of the output belong to the same record when no record
\* or section line lies between them.
SameRecordLines(i, j) ==
    /\ i \in FieldLines /\ j \in FieldLines /\ i < j
    /\ \A m \in i..j : xml_str[m].tag \in FieldTags

\* C7: in the output the fields of each record are in the fixed order
\* Reference, Description, ThreatReference and Purpose, PreConditions,
\* ExecutionSteps, ExpectedResults, EvidenceFormat.
FixedFieldOrder ==
    pc = "done" =>
        \A i, j \in FieldLines :
            SameRecordLines(i, j) => FieldRank(xml_str[i].tag) <= FieldRank(xml_str[j].tag)

\* C8 as stated: every immediate child of the root is a Section.
RootChildrenAreSections ==
    \A i \in Children(root, 1) : root[i].tag = "Section"

\* C8 amended: the children of the root are Sections, and the Requirements
\* and TestCases whose Name line came before the first heading; every other
\* record is the child of a Section.
RootChildrenSectionsOrEarlyRecords ==
    /\ \A i \in Children(root, 1) : i \in Sections \cup Records
    /\ \A r \in Records :
          IF \A s \in Sections : r < s
          THEN root[r].parent = 1
          ELSE root[r].parent \in Sections

\* C8 happens: one record before the first heading and one after it.
RootChildrenWitness ==
    \E r, s, q \in Elements :
        /\ r \in Records /\ s \in Sections /\ q \in Records
        /\ r < s /\ s < q

\* C9: every record has exactly one Name and at most one field of each kind.
FieldsAtMostOnce ==
    \A r \in Records :
        /\ Cardinality({ i \in Children(root, r) : root[i].tag = "Name" }) = 1
        /\ \A tag \in FieldTags :
              Cardinality({ i \in Children(root, r) : root[i].tag = tag }) <= 1

\* C10: no paragraph makes the scan raise; it stops only at the end of the
\* stream.
ScanNeverRaises == pc # "raised"

----------------------------------------------------------------------------
(* Steps of the scan *)

\* This step takes a paragraph; NewPara is the paragraph it takes.
TakesPara == Len(paragraphs') = Len(paragraphs) + 1
NewPara == paragraphs'[Len(paragraphs')]

\* Everything the scan keeps between paragraphs.
ScanState == <<root, section_stack, current_element, current_req, current_test,
               capture_mode>>

\* The paragraphs whose normalized text is empty.
EmptyParagraphs ==
    { k \in 1..Len(paragraphs) : clean_text(paragraphs[k].text) = <<>> }

\* C11: a paragraph whose normalized text is empty changes neither the
\* section stack, the insertion point, the open record, the capture target
\* nor the tree.
EmptyParagraphSkipped ==
    [][(TakesPara /\ clean_text(NewPara.text) = <<>>) => UNCHANGED ScanState]_vars

\* C11 happens: a continuation paragraph was appended to a field across an
\* empty paragraph.
EmptyParagraphSkippedWitness ==
    \E f \in Fields, e \in EmptyParagraphs :
        \E k \in Continuations(f) : Opened(f) < e /\ e < k

\* A paragraph the scan takes as a heading, and one it takes as a
\* Requirement Name or Test Name line.
IsHeadingPara(para) == clean_text(para.text) # <<>> /\ IsHeading(para.style)
IsRecordNamePara(para) ==
    /\ clean_text(para.text) # <<>>
    /\ ~IsHeading(para.style)
    /\ (Matches("req_name", clean_text(para.text)) \/ Matches("test_name", clean_text(para.text)))

\* A heading was taken and no Requirement Name or Test Name line since.
AfterHeading ==
    \E h \in 1..Len(paragraphs) :
        /\ IsHeadingPara(paragraphs[h])
        /\ \A k \in (h + 1)..Len(paragraphs) : ~IsRecordNamePara(paragraphs[k])

\* C12: a heading leaves no record open and no capture target, and every
\* non-heading paragraph after it, up to the next Requirement Name or Test
\* Name line, leaves the tree as it is.
HeadingClosesRecord ==
    [][/\ (TakesPara /\ IsHeadingPara(NewPara))
            => (current_req' = None /\ current_test' = None /\ capture_mode' = "None")
       /\ (TakesPara /\ AfterHeading /\ ~IsHeadingPara(NewPara) /\ ~IsRecordNamePara(NewPara))
            => root' = root]_vars

\* C12 happens: a field was being captured, a heading came, and the body
\* or label paragraphs after the heading were not added to the tree.
HeadingClosesRecordWitness ==
    \E f \in Fields, h \in 1..Len(paragraphs) :
        /\ root[f].tag \in MultiLineTags
        /\ Opened(f) < h
        /\ IsHeadingPara(paragraphs[h])
        /\ h < Len(paragraphs)
        /\ \A k \in (h + 1)..Len(paragraphs) :
              /\ k \notin EmptyParagraphs
              /\ ~IsHeadingPara(paragraphs[k])
              /\ ~IsRecordNamePara(paragraphs[k])

\* C13: a Section that is the child of a Section has a level strictly
\* greater than its parent's.
SectionLevelsIncrease ==
    \A s \in Sections :
        root[s].parent \in Sections => root[s].level > root[root[s].parent].level

\* C13 happens: a Section nested in a Section, created after a deeper
\* Section had been left.
SectionLevelsIncreaseWitness ==
    \E i, j, k \in Sections :
        /\ i < j /\ j < k
        /\ root[j].parent = i
        /\ root[k].parent = i
        /\ root[j].level > root[k].level

\* C14: after the pop of a heading of any level the section stack is not
\* empty and its bottom entry is the root, level 0.
StackKeepsRoot ==
    section_stack # <<>> /\ Head(section_stack) = <<0, 1>>

\* The Reference elements, and the one made by the paragraph taken last.
References == { i \in Elements : root[i].tag = "Reference" }
ReferenceJustSet ==
    \E i \in References : i = Len(root) /\ Opened(i) = Len(paragraphs)

\* C15: after a Requirement Reference line the capture target is None, and
\* the paragraph that follows it is appended to no field.
ReferenceClearsCapture ==
    /\ ReferenceJustSet => capture_mode = "None"
    /\ \A i \in References, f \in Fields : (Opened(i) + 1) \notin Continuations(f)

\* The paragraph taken last was a Requirement Name line.
RequirementJustOpened ==
    \E r \in Requirements : r + 1 = Len(root) /\ Opened(r) = Len(paragraphs)

\* C16: after a Requirement Name line no TestCase is open and the capture
\* target is None; no paragraph after it adds a field to, or appends to a
\* field of, a TestCase opened before it.
RequirementNameClosesTestCase ==
    /\ RequirementJustOpened => (current_test = None /\ capture_mode = "None")
    /\ \A t \in TestCases, r \in Requirements, f \in Fields :
          (Opened(t) < Opened(r) /\ root[f].parent = t)
              => \A k \in {Opened(f)} \cup Continuations(f) : k < Opened(r)

\* C16 happens: a TestCase with a multi-line field, then a Requirement
\* Name line, then test labels or body text that did not reach the TestCase.
RequirementNameClosesTestCaseWitness ==
    \E t \in TestCases, r \in Requirements, f \in Fields :
        /\ Opened(t) < Opened(r)
        /\ root[f].parent = t
        /\ root[f].tag \in MultiLineTags
        /\ Opened(r) < Len(paragraphs)
        /\ \A k \in (Opened(r) + 1)..Len(paragraphs) :
              /\ k \notin EmptyParagraphs
              /\ ~IsHeadingPara(paragraphs[k])
              /\ ~IsRecordNamePara(paragraphs[k])

\* The single-line elements: the Name of a record, Reference, ThreatReference.
SingleLineTags == {"Name", "Reference", "ThreatReference"}
SingleLines == { i \in Elements : root[i].tag \in SingleLineTags }

\* C17: the value of a Name, Reference or ThreatReference is the inline
\* value of the paragraph that created it, and no later paragraph was
\* appended to it.
SingleLineNeverExtended ==
    \A i \in SingleLines :
        /\ root[i].paras = <<Opened(i)>>
        /\ root[i].text = Group1(clean_text(paragraphs[Opened(i)].text))

\* C17 happens: a continuation paragraph was appended to a field of a
\* record after a Reference or ThreatReference of the same record was set.
SingleLineNeverExtendedWitness ==
    \E i \in SingleLines, f \in Fields :
        /\ root[i].tag # "Name"
        /\ root[i].parent = root[f].parent
        /\ \E k \in Continuations(f) : Opened(i) < k

ReqLabels == {"req_ref", "req_desc", "threat_ref"}
TestLabels == {"purpose", "pre_cond", "steps", "expected", "evidence"}

\* A non-heading paragraph that is no Requirement Name or Test Name line and
\* matches no field label of the record that is open.
Orphan(para) ==
    LET text == clean_text(para.text)
    IN /\ text # <<>>
       /\ ~IsHeading(para.style)
       /\ ~Matches("req_name", text)
       /\ ~Matches("test_name", text)
       /\ current_req # None => \A l \in ReqLabels : ~Matches(l, text)
       /\ current_test # None => \A l \in TestLabels : ~Matches(l, text)

\* C18: an orphan paragraph taken while the capture target is None changes
\* neither the tree, the section stack, the open record nor the capture
\* target.
OrphanDiscarded ==
    [][(TakesPara /\ capture_mode = "None" /\ Orphan(NewPara)) => UNCHANGED ScanState]_vars

\* C18 happens: with a record open and no capture target, the paragraph
\* taken last was an orphan.
OrphanDiscardedWitness ==
    /\ pc = "loop"
    /\ paragraphs # <<>>
    /\ current_req # None \/ current_test # None
    /\ capture_mode = "None"
    /\ Orphan(paragraphs[Len(paragraphs)])

\* C19: a continuation paragraph is appended to the field of the most
\* recent label paragraph: never to a field after which the same record got
\* another field of the same kind.
ContinuationToLatestField ==
    \A f \in Fields, g \in Fields :
        (root[g].parent = root[f].parent /\ root[g].tag = root[f].tag /\ Opened(f) < Opened(g))
            => \A k \in Continuations(f) : k < Opened(g)

\* C20: the section stack has the root, level 0, at the bottom, levels that
\* increase strictly from bottom to top, each entry's element a child of the
\* element of the entry below, and the insertion point on top.
SectionStackInvariant ==
    /\ section_stack # <<>>
    /\ Head(section_stack) = <<0, 1>>
    /\ \A n \in 2..Len(section_stack) :
          /\ section_stack[n - 1][1] < section_stack[n][1]
          /\ root[section_stack[n][2]].parent = section_stack[n - 1][2]
    /\ current_element = section_stack[Len(section_stack)][2]

====
